---- MODULE Spec2Model ----
(***************************************************************************)
(* Model of the two Bloom filters of src/c_impl: the standard filter       *)
(* (bloom_filter.c) and the blocked "lightweight" filter                   *)
(* (lightweight_bloom_filter.c), with the heap they allocate from.         *)
(*                                                                         *)
(* Arithmetic.  The 64-bit build is modelled (size_t and uint64_t have the *)
(* same width).  TLC's integers are 32 bits wide, so the C integer types   *)
(* are scaled: uint32_t is W32 bits and size_t / uint64_t are W64 = 2*W32  *)
(* bits; every operation wraps modulo 2^width exactly where the C one      *)
(* does.  Hash constants are the low bits of the C constants and shift /   *)
(* rotate distances are scaled in proportion to the width.  The geometry   *)
(* of the bit arrays is NOT scaled: a byte holds 8 bits and a word 64.  A  *)
(* buffer is its element count with the set of the <<element index, bit    *)
(* position>> pairs of its 1 bits.                                         *)
(***************************************************************************)
EXTENDS Integers, Sequences, FiniteSets, TLC

\* ------------------------------------------------------------------ bounds
\* Width of the scaled uint32_t, in bits.
W32 == 5
\* Number of heap addresses calloc can hand out.
MaxBufs == 2

W64 == 2 * W32
M32 == 2 ^ W32
M64 == 2 ^ W64
UINT32_MAX == M32 - 1
SIZE_MAX == M64 - 1

\* --------------------------------------------------------- bit arithmetic
RECURSIVE BitAnd(_, _)
BitAnd(a, b) ==
    IF a = 0 \/ b = 0 THEN 0
    ELSE (a % 2) * (b % 2) + 2 * BitAnd(a \div 2, b \div 2)

RECURSIVE BitOr(_, _)
BitOr(a, b) ==
    IF a = 0 THEN b
    ELSE IF b = 0 THEN a
    ELSE (IF a % 2 = 1 \/ b % 2 = 1 THEN 1 ELSE 0) + 2 * BitOr(a \div 2, b \div 2)

RECURSIVE BitXor(_, _)
BitXor(a, b) ==
    IF a = 0 THEN b
    ELSE IF b = 0 THEN a
    ELSE ((a + b) % 2) + 2 * BitXor(a \div 2, b \div 2)

\* x >> n on an unsigned value of w bits.
Shr(x, n, w) == IF n >= w THEN 0 ELSE x \div (2 ^ n)
\* x << n on an unsigned value of w bits (the high bits fall off).
Shl(x, n, w) == IF n >= w THEN 0 ELSE (x * (2 ^ n)) % (2 ^ w)
\* (x << n) | (x >> (w - n)), the rotate the hash functions spell out.
Rotl(x, n, w) == BitOr(Shl(x, n, w), Shr(x, w - n, w))
\* A shift distance of the 64-bit (32-bit) code, scaled to W64 (W32) bits.
Sh64(n) == (n * W64) \div 64
Sh32(n) == (n * W32) \div 32

\* ------------------------------------------------------------------- keys
\* A key is a NUL-terminated C string, here the sequence of its bytes.  The
\* keys are shorter than 4 bytes, so the hashes below are the code's paths
\* for len < 4 (no 4-, 8- or 32-byte block is consumed).
NoItem == <<0>>
Keys == { <<97>>, <<98>>, <<97, 98>> }
Items == Keys \cup {NoItem}
strlen(item) == Len(item)

\* -------------------------------------------------------- hash primitives
\* murmurhash(key, len, seed): MurmurHash3 x86_32, as in hash_utils.c:murmur3_32.
murmur_c1 == 11601 % M32
murmur_c2 == 13715 % M32
murmur_f1 == 51819 % M32
murmur_f2 == 44597 % M32

murmur_tail(data, len) ==
    LET t2 == IF len % 4 >= 3 THEN Shl(data[3] % M32, Sh32(16), W32) ELSE 0
        t1 == IF len % 4 >= 2 THEN Shl(data[2] % M32, Sh32(8), W32) ELSE 0
        t0 == IF len % 4 >= 1 THEN data[1] % M32 ELSE 0
    IN  BitXor(BitXor(t2, t1), t0)

murmurhash(data, len, seed) ==
    LET k1a == murmur_tail(data, len)
        k1b == (k1a * murmur_c1) % M32
        k1c == Rotl(k1b, Sh32(15), W32)
        k1d == (k1c * murmur_c2) % M32
        h1a == IF len % 4 >= 1 THEN BitXor(seed, k1d) ELSE seed
        h1b == BitXor(h1a, len % M32)
        h1c == BitXor(h1b, Shr(h1b, Sh32(16), W32))
        h1d == (h1c * murmur_f1) % M32
        h1e == BitXor(h1d, Shr(h1d, Sh32(13), W32))
        h1f == (h1e * murmur_f2) % M32
    IN  BitXor(h1f, Shr(h1f, Sh32(16), W32))

\* XXH64(data, len, seed): xxHash64, as in hash_utils.c:xxhash64.
prime1 == 51847 % M64
prime2 == 60239 % M64
prime3 == 31225 % M64
prime4 == 44643 % M64
prime5 == 26565 % M64

RECURSIVE xxh_bytes(_, _, _, _)
xxh_bytes(data, len, index, h64) ==
    IF index < len
    THEN LET k1a == ((data[index + 1] % M64) * prime5) % M64
             k1b == Rotl(k1a, Sh64(11), W64)
             k1c == (k1b * prime1) % M64
             ha  == BitXor(h64, k1c)
             hb  == Rotl(ha, Sh64(11), W64)
             hc  == (hb * prime1 + prime4) % M64
         IN  xxh_bytes(data, len, index + 1, hc)
    ELSE h64

XXH64(data, len, seed) ==
    LET h0 == (seed + prime5) % M64
        h1 == (h0 + len) % M64
        h2 == xxh_bytes(data, len, 0, h1)
        h3 == BitXor(h2, Shr(h2, Sh64(33), W64))
        h4 == (h3 * prime2) % M64
        h5 == BitXor(h4, Shr(h4, Sh64(29), W64))
        h6 == (h5 * prime3) % M64
    IN  BitXor(h6, Shr(h6, Sh64(32), W64))

\* splitmix64_next(&state): the new state and the value returned.
gamma == 31765 % M64
mul1 == 58809 % M64
mul2 == 4587 % M64

splitmix64_state(state) == (state + gamma) % M64

splitmix64_next(state) ==
    LET x0 == splitmix64_state(state)
        x1 == (BitXor(x0, Shr(x0, Sh64(30), W64)) * mul1) % M64
        x2 == (BitXor(x1, Shr(x1, Sh64(27), W64)) * mul2) % M64
    IN  BitXor(x2, Shr(x2, Sh64(31), W64))

\* ------------------------------------------------------------------ state
NULL == 0
\* The heap addresses calloc can return.
Addr == 1 .. MaxBufs

\* BloomFilter (bloom_filter.h) and LightweightBloomFilter
\* (lightweight_bloom_filter.h), zero-valued.
ZeroBloom ==
    [size_bits |-> 0, num_hashes |-> 0, seed1 |-> 0, seed2 |-> 0,
     bit_array |-> NULL, byte_length |-> 0]
ZeroLbf ==
    [size_bits |-> 0, num_hashes |-> 0, seed |-> 0, word_count |-> 0,
     word_mask |-> 0, block_bits |-> 0, bit_array |-> NULL]

VARIABLES
    kind,      \* which filter the holder drives in this run: "bloom" or "lbf"
    bf,        \* the holder's BloomFilter structure
    lf,        \* the holder's LightweightBloomFilter structure
    mem,       \* heap: live buffer address -> [len, bits], bits the 1 bits
    leaked,    \* live buffers no pointer reaches any more
    crashed,   \* the process died of undefined behaviour
    inserted,  \* history: keys added to the buffer the structure points to
    last,      \* history: the last call, its arguments, result and accesses
    heldAll    \* history: the filter held every key of Keys when last released

vars == <<kind, bf, lf, mem, leaked, crashed, inserted, last, heldAll>>

\* The record of a call; fields a call does not use keep these values.
\* live: the structure pointed to a buffer when the call was made.
NoCall ==
    [op |-> "none", present |-> FALSE, item |-> NoItem,
     size_bits |-> 0, num_hashes |-> 0, seed1 |-> 0, seed2 |-> 0, seed |-> 0,
     alloc |-> "none", ret |-> "void", reads |-> {}, writes |-> {},
     probes |-> <<>>, freed |-> NULL, ub |-> "none", live |-> FALSE]

Bool(b) == IF b THEN "true" ELSE "false"

\* ------------------------------------------------------------------- heap
\* The addresses calloc may still hand out, m being the reachable live
\* buffers and l the leaked ones.
FreeAddrs(m, l) == Addr \ (DOMAIN m \cup l)

\* calloc(nmemb, size): NULL when the allocator refuses (allocOk = FALSE) or
\* no address is left, else a fresh address.
calloc(allocOk, m, l) ==
    IF allocOk /\ FreeAddrs(m, l) # {}
    THEN CHOOSE a \in FreeAddrs(m, l) : \A b \in FreeAddrs(m, l) : a <= b
    ELSE NULL

\* Mutant of ZeroArray: the memory comes as malloc would leave it, a bit set.
ZeroArray_dirty(nmemb) == [len |-> nmemb, bits |-> {<<0, 0>>}]

\* The zeroed array of nmemb elements calloc returns.
ZeroArray(nmemb) == [len |-> nmemb, bits |-> {}]

\* free(p): free(NULL) does nothing; freeing an address that is not live is
\* undefined behaviour.
free_ub(p, m) == IF p # NULL /\ p \notin DOMAIN m THEN "invalid_free" ELSE "none"
free_mem(p, m) == [a \in DOMAIN m \ {p} |-> m[a]]

\* Overwriting the only pointer to a live buffer leaks it.
LeakMem(p, m) == [a \in DOMAIN m \ {p} |-> m[a]]
LeakSet(p, m, l) == IF p \in DOMAIN m THEN l \cup {p} ELSE l

\* An array with one more buffer.
Store(m, p, array) == [a \in DOMAIN m \cup {p} |-> IF a = p THEN array ELSE m[a]]

\* ---------------------------------------------------------- bloom_filter.c
BLOOM_MIN_SIZE == 1

\* Mutant of bloom_set_bit: "=" for "|=", the byte's other bits are lost.
bloom_set_bit_assign(array, bit_index) ==
    [array EXCEPT !.bits = { x \in @ : x[1] # bit_index \div 8 }
                           \cup { <<bit_index \div 8, bit_index % 8>> }]

\* Mutant of bloom_set_bit: "^=" for "|=", a set bit is cleared again.
bloom_set_bit_toggle(array, bit_index) ==
    [array EXCEPT !.bits =
        IF <<bit_index \div 8, bit_index % 8>> \in @
        THEN @ \ { <<bit_index \div 8, bit_index % 8>> }
        ELSE @ \cup { <<bit_index \div 8, bit_index % 8>> }]

\* array[bit_index >> 3] |= (uint8_t)(1u << (bit_index & 7u))
bloom_set_bit(array, bit_index) ==
    [array EXCEPT !.bits = @ \cup { <<bit_index \div 8, bit_index % 8>> }]

\* (array[bit_index >> 3] & (uint8_t)(1u << (bit_index & 7u))) != 0
bloom_bit_is_set(array, bit_index) ==
    <<bit_index \div 8, bit_index % 8>> \in array.bits

\* Mutant of bloom_hashes_ok: the check of item is missing.
bloom_hashes_ok_no_item_check(present, filter, item) ==
    ~ (~present \/ filter.size_bits = 0 \/ filter.bit_array = NULL)

\* The guard of bloom_compute_hashes (h1 and h2 are never absent).
bloom_hashes_ok(present, filter, item) ==
    ~ (~present \/ item = NoItem \/ filter.size_bits = 0 \/ filter.bit_array = NULL)

\* Mutant of bloom_h1: the seed takes in the address of the buffer.
bloom_h1_by_address(filter, item) ==
    murmurhash(item, strlen(item) % M32, (filter.seed1 + filter.bit_array) % M32)

\* *h1 of bloom_compute_hashes.
bloom_h1(filter, item) ==
    murmurhash(item, strlen(item) % M32, filter.seed1)

\* Mutant of bloom_h2: the remainder is used as it is.
bloom_h2_no_clamp(filter, item) ==
    XXH64(item, strlen(item), filter.seed2) % filter.size_bits

\* *h2 of bloom_compute_hashes: the stride, never 0.
bloom_h2(filter, item) ==
    LET secondary == XXH64(item, strlen(item), filter.seed2) % filter.size_bits
    IN  IF secondary = 0 THEN 1 ELSE secondary

\* Mutant of bloom_bit_index: the reduction modulo size_bits is missing.
bloom_bit_index_no_mod(filter, h1, h2, i) == (h1 + ((i * h2) % M64)) % M64

\* (h1 + i * h2) % filter->size_bits, evaluated in uint64_t.
bloom_bit_index(filter, h1, h2, i) ==
    ((h1 + ((i * h2) % M64)) % M64) % filter.size_bits

\* The loop of bloom_add from iteration i on.
RECURSIVE bloom_add_loop(_, _, _, _, _)
bloom_add_loop(filter, array, h1, h2, i) ==
    IF i < filter.num_hashes
    THEN bloom_add_loop(filter,
                        bloom_set_bit(array, bloom_bit_index(filter, h1, h2, i)),
                        h1, h2, i + 1)
    ELSE array

\* The bit indices bloom_add sets, in order.
bloom_add_probes(filter, h1, h2) ==
    [j \in 1 .. filter.num_hashes |-> bloom_bit_index(filter, h1, h2, j - 1)]

\* The loop of bloom_contains from iteration i on: the bit indices it tests,
\* in order, up to and including the first clear one.
RECURSIVE bloom_contains_probes(_, _, _, _, _)
bloom_contains_probes(filter, array, h1, h2, i) ==
    IF i < filter.num_hashes
    THEN LET bit_index == bloom_bit_index(filter, h1, h2, i)
         IN  IF ~ bloom_bit_is_set(array, bit_index)
             THEN <<bit_index>>
             ELSE <<bit_index>> \o bloom_contains_probes(filter, array, h1, h2, i + 1)
    ELSE <<>>

\* The result of that loop.
RECURSIVE bloom_contains_loop(_, _, _, _, _)
bloom_contains_loop(filter, array, h1, h2, i) ==
    IF i < filter.num_hashes
    THEN IF ~ bloom_bit_is_set(array, bloom_bit_index(filter, h1, h2, i))
         THEN FALSE
         ELSE bloom_contains_loop(filter, array, h1, h2, i + 1)
    ELSE TRUE

\* bloom_contains(filter, item) on heap m.
bloom_contains(present, filter, m, item) ==
    IF ~ bloom_hashes_ok(present, filter, item)
    THEN FALSE
    ELSE bloom_contains_loop(filter, m[filter.bit_array],
                             bloom_h1(filter, item), bloom_h2(filter, item), 0)

\* The bytes of the buffer at p that a call touched, probes being bit indices.
ByteAccesses(p, probes) == { <<p, probes[j] \div 8>> : j \in DOMAIN probes }

\* Mutant of bloom_init_valid: the overflow check is missing.
bloom_init_valid_no_overflow_check(present, size_bits, num_hashes) ==
    ~ (~present \/ size_bits < 1 \/ num_hashes = 0)

\* The parameter checks of bloom_init.
bloom_init_valid(present, size_bits, num_hashes) ==
    /\ ~ (~present \/ size_bits < BLOOM_MIN_SIZE \/ num_hashes = 0)
    /\ ~ (size_bits > SIZE_MAX - 7)

\* Mutant of bloom_byte_length: the division rounds down.
bloom_byte_length_floor(size_bits) == size_bits \div 8

\* (size_bits + 7u) / 8u
bloom_byte_length(size_bits) == ((size_bits + 7) % M64) \div 8

\* The structure bloom_init leaves when calloc returned bits.
bloom_init_fields(size_bits, num_hashes, seed1, seed2, bits, byte_length) ==
    IF bits = NULL
    THEN ZeroBloom
    ELSE [size_bits |-> size_bits, num_hashes |-> num_hashes, seed1 |-> seed1,
          seed2 |-> seed2, bit_array |-> bits, byte_length |-> byte_length]

\* Mutant of bloom_free_fields: the structure is not reset.
bloom_free_fields_kept(filter) == filter

\* The structure bloom_free leaves: bit_array = NULL, then memset(filter, 0).
bloom_free_fields(filter) == ZeroBloom

\* Arguments the holder passes.  An absent filter (a null pointer) comes
\* with one choice of the other arguments.
BloomSizes == {0, 1, 9, SIZE_MAX - 7, SIZE_MAX - 6}
\* <<num_hashes, seed1, seed2>>
BloomParams == { <<0, 0, 0>>, <<1, 7, 0>>, <<3, 5, 7>> }

BloomInit(present, size_bits, num_hashes, seed1, seed2) ==
    /\ kind = "bloom" /\ ~crashed
    /\ LET call == [NoCall EXCEPT !.op = "bloom_init", !.present = present,
                        !.size_bits = size_bits, !.num_hashes = num_hashes,
                        !.seed1 = seed1, !.seed2 = seed2, !.live = (bf.bit_array # NULL)]
       IN  IF ~ bloom_init_valid(present, size_bits, num_hashes)
           THEN /\ last' = [call EXCEPT !.ret = "false"]
                /\ UNCHANGED <<bf, mem, leaked, inserted>>
           ELSE \E allocOk \in BOOLEAN :
                LET byte_length == bloom_byte_length(size_bits)
                    m1 == LeakMem(bf.bit_array, mem)
                    l1 == LeakSet(bf.bit_array, mem, leaked)
                    bits == calloc(allocOk, m1, l1)
                IN  /\ bf' = bloom_init_fields(size_bits, num_hashes, seed1, seed2,
                                               bits, byte_length)
                    /\ mem' = IF bits = NULL THEN m1
                              ELSE Store(m1, bits, ZeroArray(byte_length))
                    /\ leaked' = l1
                    /\ inserted' = {}
                    /\ last' = [call EXCEPT !.ret = Bool(bits # NULL),
                                    !.alloc = IF bits = NULL THEN "fail" ELSE "ok"]
    /\ UNCHANGED <<kind, lf, crashed, heldAll>>

BloomFree(present) ==
    /\ kind = "bloom" /\ ~crashed
    /\ LET call == [NoCall EXCEPT !.op = "bloom_free", !.present = present,
                        !.live = (bf.bit_array # NULL)]
       IN  IF ~present
           THEN /\ last' = call
                /\ UNCHANGED <<bf, mem, leaked, inserted, crashed, heldAll>>
           ELSE /\ last' = [call EXCEPT !.freed = bf.bit_array,
                                !.ub = free_ub(bf.bit_array, mem)]
                /\ mem' = free_mem(bf.bit_array, mem)
                /\ bf' = bloom_free_fields(bf)
                /\ inserted' = {}
                /\ heldAll' = IF bf.bit_array # NULL THEN inserted = Keys ELSE heldAll
                /\ crashed' \in (IF free_ub(bf.bit_array, mem) = "none"
                                 THEN {FALSE} ELSE BOOLEAN)
                /\ UNCHANGED leaked
    /\ UNCHANGED <<kind, lf>>

BloomAdd(present, item) ==
    /\ kind = "bloom" /\ ~crashed
    /\ LET call == [NoCall EXCEPT !.op = "bloom_add", !.present = present,
                        !.item = item, !.live = (bf.bit_array # NULL)]
       IN  IF ~ bloom_hashes_ok(present, bf, item)
           THEN /\ last' = call
                /\ UNCHANGED <<mem, inserted>>
           ELSE LET h1 == bloom_h1(bf, item)
                    h2 == bloom_h2(bf, item)
                    probes == bloom_add_probes(bf, h1, h2)
                IN  /\ mem' = [mem EXCEPT ![bf.bit_array] =
                                   bloom_add_loop(bf, @, h1, h2, 0)]
                    /\ inserted' = inserted \cup {item}
                    /\ last' = [call EXCEPT !.probes = probes,
                                    !.reads = ByteAccesses(bf.bit_array, probes),
                                    !.writes = ByteAccesses(bf.bit_array, probes)]
    /\ UNCHANGED <<kind, bf, lf, leaked, crashed, heldAll>>

BloomContains(present, item) ==
    /\ kind = "bloom" /\ ~crashed
    /\ LET call == [NoCall EXCEPT !.op = "bloom_contains", !.present = present,
                        !.item = item, !.live = (bf.bit_array # NULL),
                        !.ret = Bool(bloom_contains(present, bf, mem, item))]
       IN  IF ~ bloom_hashes_ok(present, bf, item)
           THEN last' = call
           ELSE LET probes == bloom_contains_probes(bf, mem[bf.bit_array],
                                  bloom_h1(bf, item), bloom_h2(bf, item), 0)
                IN  last' = [call EXCEPT !.probes = probes,
                                 !.reads = ByteAccesses(bf.bit_array, probes)]
    /\ UNCHANGED <<kind, bf, lf, mem, leaked, crashed, inserted, heldAll>>

NextBloom ==
    \/ \E size_bits \in BloomSizes, p \in BloomParams :
          BloomInit(TRUE, size_bits, p[1], p[2], p[3])
    \/ BloomInit(FALSE, 9, 3, 5, 7)
    \/ \E present \in BOOLEAN : BloomFree(present)
    \/ \E present \in BOOLEAN, item \in Items : BloomAdd(present, item)
    \/ \E present \in BOOLEAN, item \in Items : BloomContains(present, item)

\* ------------------------------------------------ lightweight_bloom_filter.c
MIN_SIZE == 1

\* next_power_of_two(value); the shifts beyond the width leave value as it is.
next_power_of_two(value) ==
    IF value <= 1
    THEN 1
    ELSE LET v0 == (value - 1) % M64
             v1 == BitOr(v0, Shr(v0, 1, W64))
             v2 == BitOr(v1, Shr(v1, 2, W64))
             v3 == BitOr(v2, Shr(v2, 4, W64))
             v4 == BitOr(v3, Shr(v3, 8, W64))
             v5 == BitOr(v4, Shr(v4, 16, W64))
             v6 == BitOr(v5, Shr(v5, 32, W64))
         IN  (v6 + 1) % M64

\* Mutant of block_index_from_hash: the low bits of the digest choose the word.
block_index_from_low_bits(digest, block_bits, mask) == BitAnd(digest, mask)

\* block_index_from_hash(digest, block_bits, mask): digest >> (64 - block_bits),
\* 64 being the width of the digest.
block_index_from_hash(digest, block_bits, mask) ==
    IF block_bits = 0
    THEN 0
    ELSE BitAnd(Shr(digest, W64 - block_bits, W64), mask)

\* The parameter check of lbf_init.
lbf_init_valid(present, size_bits, num_hashes) ==
    ~ (~present \/ size_bits < MIN_SIZE \/ num_hashes = 0)

\* requested_words of lbf_init.
lbf_requested_words(size_bits) ==
    LET requested_words == ((size_bits + 63) % M64) \div 64
    IN  IF requested_words = 0 THEN 1 ELSE requested_words

\* The loop of lbf_init that counts block_bits.
RECURSIVE lbf_count_bits(_, _)
lbf_count_bits(bits, tmp) ==
    IF tmp > 1 THEN lbf_count_bits(bits + 1, Shr(tmp, 1, W64)) ELSE bits

\* The structure lbf_init leaves when calloc returned array.
lbf_init_fields(num_hashes, seed, word_count, array) ==
    [size_bits |-> (word_count * 64) % M64, num_hashes |-> num_hashes,
     seed |-> seed, word_count |-> word_count,
     word_mask |-> (word_count - 1) % M64,
     block_bits |-> lbf_count_bits(0, word_count), bit_array |-> array]

\* The structure lbf_free leaves: memset(filter, 0).
lbf_free_fields(filter) == ZeroLbf

\* Mutant of ReadWord: the word starts from 0 instead of the stored word.
ReadWord_zero(array, block_index) == {}

\* filter->bit_array[block_index] as the set of the positions of its 1 bits,
\* and the array after filter->bit_array[block_index] = word.
ReadWord(array, block_index) ==
    { e[2] : e \in { x \in array.bits : x[1] = block_index } }
WriteWord(array, block_index, word) ==
    [array EXCEPT !.bits = { x \in @ : x[1] # block_index }
                           \cup { <<block_index, b>> : b \in word }]

\* digest, then block_index, of lbf_add and lbf_contains.
lbf_digest(filter, item) == XXH64(item, strlen(item), filter.seed)
lbf_block_index(filter, item) ==
    block_index_from_hash(lbf_digest(filter, item), filter.block_bits,
                          filter.word_mask)

\* Mutant of lbf_bit_pos: the mask is one bit too wide.
lbf_bit_pos_wide(state) == BitAnd(splitmix64_next(state), 127)

\* splitmix64_next(&state) & 63u
lbf_bit_pos(state) == BitAnd(splitmix64_next(state), 63)

\* The loop of lbf_add from iteration i on: the word it builds.
RECURSIVE lbf_add_loop(_, _, _, _)
lbf_add_loop(filter, word, state, i) ==
    IF i < filter.num_hashes
    THEN lbf_add_loop(filter, word \cup {lbf_bit_pos(state)},
                      splitmix64_state(state), i + 1)
    ELSE word

\* The bit positions lbf_add draws, in order.
RECURSIVE lbf_add_probes(_, _, _)
lbf_add_probes(filter, state, i) ==
    IF i < filter.num_hashes
    THEN <<lbf_bit_pos(state)>>
         \o lbf_add_probes(filter, splitmix64_state(state), i + 1)
    ELSE <<>>

\* The loop of lbf_contains from iteration i on: the bit positions it tests,
\* in order, up to and including the first clear one.
RECURSIVE lbf_contains_probes(_, _, _, _)
lbf_contains_probes(filter, word, state, i) ==
    IF i < filter.num_hashes
    THEN LET bit_pos == lbf_bit_pos(state)
         IN  IF bit_pos \notin word
             THEN <<bit_pos>>
             ELSE <<bit_pos>>
                  \o lbf_contains_probes(filter, word, splitmix64_state(state), i + 1)
    ELSE <<>>

\* The result of that loop.
RECURSIVE lbf_contains_loop(_, _, _, _)
lbf_contains_loop(filter, word, state, i) ==
    IF i < filter.num_hashes
    THEN IF lbf_bit_pos(state) \notin word
         THEN FALSE
         ELSE lbf_contains_loop(filter, word, splitmix64_state(state), i + 1)
    ELSE TRUE

\* What an access filter->bit_array[block_index] does to the process: a null
\* bit_array or an index past the array is undefined behaviour.
lbf_access_ub(filter, m, block_index) ==
    IF filter.bit_array \notin DOMAIN m THEN "null_deref"
    ELSE IF block_index >= m[filter.bit_array].len THEN "out_of_bounds"
    ELSE "none"

\* lbf_contains(filter, item) on heap m, for an access that is defined.
lbf_contains(present, filter, m, item) ==
    IF ~present \/ item = NoItem
    THEN FALSE
    ELSE lbf_contains_loop(filter,
                           ReadWord(m[filter.bit_array], lbf_block_index(filter, item)),
                           lbf_digest(filter, item), 0)

LbfSizes == {0, 1, 65, 100, 130, SIZE_MAX \div 2, SIZE_MAX}
\* <<num_hashes, seed>>
LbfParams == { <<0, 0>>, <<1, 0>>, <<3, 7>> }

LbfInit(present, size_bits, num_hashes, seed) ==
    /\ kind = "lbf" /\ ~crashed
    /\ LET call == [NoCall EXCEPT !.op = "lbf_init", !.present = present,
                        !.size_bits = size_bits, !.num_hashes = num_hashes,
                        !.seed = seed, !.live = (lf.bit_array # NULL)]
       IN  IF ~ lbf_init_valid(present, size_bits, num_hashes)
           THEN /\ last' = [call EXCEPT !.ret = "false"]
                /\ UNCHANGED <<lf, mem, leaked, inserted>>
           ELSE \E allocOk \in BOOLEAN :
                LET word_count == next_power_of_two(lbf_requested_words(size_bits))
                    array == calloc(allocOk, mem, leaked)
                IN  IF array = NULL
                    THEN /\ last' = [call EXCEPT !.ret = "false", !.alloc = "fail"]
                         /\ UNCHANGED <<lf, mem, leaked, inserted>>
                    ELSE /\ lf' = lbf_init_fields(num_hashes, seed, word_count, array)
                         /\ mem' = Store(LeakMem(lf.bit_array, mem), array,
                                         ZeroArray(word_count))
                         /\ leaked' = LeakSet(lf.bit_array, mem, leaked)
                         /\ inserted' = {}
                         /\ last' = [call EXCEPT !.ret = "true", !.alloc = "ok"]
    /\ UNCHANGED <<kind, bf, crashed, heldAll>>

LbfFree(present) ==
    /\ kind = "lbf" /\ ~crashed
    /\ LET call == [NoCall EXCEPT !.op = "lbf_free", !.present = present,
                        !.live = (lf.bit_array # NULL)]
       IN  IF ~present
           THEN /\ last' = call
                /\ UNCHANGED <<lf, mem, leaked, inserted, crashed, heldAll>>
           ELSE /\ last' = [call EXCEPT !.freed = lf.bit_array,
                                !.ub = free_ub(lf.bit_array, mem)]
                /\ mem' = free_mem(lf.bit_array, mem)
                /\ lf' = lbf_free_fields(lf)
                /\ inserted' = {}
                /\ heldAll' = IF lf.bit_array # NULL THEN inserted = Keys ELSE heldAll
                /\ crashed' \in (IF free_ub(lf.bit_array, mem) = "none"
                                 THEN {FALSE} ELSE BOOLEAN)
                /\ UNCHANGED leaked
    /\ UNCHANGED <<kind, bf>>

LbfAdd(present, item) ==
    /\ kind = "lbf" /\ ~crashed
    /\ LET call == [NoCall EXCEPT !.op = "lbf_add", !.present = present,
                        !.item = item, !.live = (lf.bit_array # NULL)]
       IN  IF ~present \/ item = NoItem
           THEN /\ last' = call
                /\ UNCHANGED <<mem, inserted, crashed>>
           ELSE LET digest == lbf_digest(lf, item)
                    block_index == lbf_block_index(lf, item)
                    ub == lbf_access_ub(lf, mem, block_index)
                    touched == { <<lf.bit_array, block_index>> }
                    acc == [call EXCEPT !.reads = touched, !.writes = touched,
                                !.ub = ub]
                IN  IF ub # "none"
                    THEN /\ crashed' \in BOOLEAN
                         /\ last' = acc
                         /\ UNCHANGED <<mem, inserted>>
                    ELSE /\ mem' = [mem EXCEPT ![lf.bit_array] =
                                        WriteWord(@, block_index,
                                            lbf_add_loop(lf, ReadWord(@, block_index),
                                                         digest, 0))]
                         /\ inserted' = inserted \cup {item}
                         /\ last' = [acc EXCEPT !.probes = lbf_add_probes(lf, digest, 0)]
                         /\ UNCHANGED crashed
    /\ UNCHANGED <<kind, bf, lf, leaked, heldAll>>

LbfContains(present, item) ==
    /\ kind = "lbf" /\ ~crashed
    /\ LET call == [NoCall EXCEPT !.op = "lbf_contains", !.present = present,
                        !.item = item, !.live = (lf.bit_array # NULL)]
       IN  IF ~present \/ item = NoItem
           THEN /\ last' = [call EXCEPT !.ret = "false"]
                /\ UNCHANGED crashed
           ELSE LET digest == lbf_digest(lf, item)
                    block_index == lbf_block_index(lf, item)
                    ub == lbf_access_ub(lf, mem, block_index)
                    acc == [call EXCEPT !.reads = { <<lf.bit_array, block_index>> },
                                !.ub = ub]
                IN  IF ub # "none"
                    THEN \E outcome \in {"crash", "true", "false"} :
                         /\ crashed' = (outcome = "crash")
                         /\ last' = [acc EXCEPT !.ret =
                                         IF outcome = "crash" THEN "void" ELSE outcome]
                    ELSE /\ last' = [acc EXCEPT
                                !.ret = Bool(lbf_contains(present, lf, mem, item)),
                                !.probes = lbf_contains_probes(lf,
                                    ReadWord(mem[lf.bit_array], block_index), digest, 0)]
                         /\ UNCHANGED crashed
    /\ UNCHANGED <<kind, bf, lf, mem, leaked, inserted, heldAll>>

NextLbf ==
    \/ \E size_bits \in LbfSizes, p \in LbfParams :
          LbfInit(TRUE, size_bits, p[1], p[2])
    \/ LbfInit(FALSE, 100, 3, 7)
    \/ \E present \in BOOLEAN : LbfFree(present)
    \/ \E present \in BOOLEAN, item \in Items : LbfAdd(present, item)
    \/ \E present \in BOOLEAN, item \in Items : LbfContains(present, item)

Init ==
    /\ kind \in {"bloom", "lbf"}
    /\ bf = ZeroBloom
    /\ lf = ZeroLbf
    /\ mem = << >>
    /\ leaked = {}
    /\ crashed = FALSE
    /\ inserted = {}
    /\ last = NoCall
    /\ heldAll = FALSE

Next == NextBloom \/ NextLbf

Spec == Init /\ [][Next]_vars
\* ================================================================= claims
IsInsert == last.op \in {"bloom_add", "lbf_add"}
IsContains == last.op \in {"bloom_contains", "lbf_contains"}
IsInit == last.op \in {"bloom_init", "lbf_init"}
IsFree == last.op \in {"bloom_free", "lbf_free"}
\* The call had a filter and a key to work on.
HasArgs == last.present /\ last.item # NoItem
\* ceil(a / b) over the mathematical integers.
CeilDiv(a, b) == (a + b - 1) \div b
\* The smallest power of two that is >= n, for n >= 1.
RECURSIVE Pow2AtLeast(_, _)
Pow2AtLeast(n, p) == IF p >= n THEN p ELSE Pow2AtLeast(n, 2 * p)
\* s is a prefix of t.
IsPrefix(s, t) == Len(s) <= Len(t) /\ \A j \in 1 .. Len(s) : s[j] = t[j]

\* C1 -- No false negatives: while the filter holds a buffer, contains returns
\* true for every key inserted into it since its init, for both filter kinds,
\* and a contains call on such a key has returned true.
C1_NoFalseNegatives ==
    /\ (kind = "bloom" /\ bf.bit_array # NULL)
          => \A x \in inserted : bloom_contains(TRUE, bf, mem, x)
    /\ (kind = "lbf" /\ lf.bit_array # NULL)
          => \A x \in inserted : lbf_contains(TRUE, lf, mem, x)
    /\ (IsContains /\ HasArgs /\ last.item \in inserted) => last.ret = "true"

\* A contains call on an inserted key, with another key in the filter too.
C1_Witness ==
    /\ last.op = "bloom_contains" /\ last.item \in inserted
    /\ Cardinality(inserted) >= 2 /\ last.ret = "true" /\ bf.size_bits = 9

\* C2 -- Blocked filter: lbf_add or lbf_contains on a zero-valued or released
\* filter touches no memory, is no undefined behaviour, and lbf_contains
\* returns false.
C2_LbfInertIsSafe ==
    (last.op \in {"lbf_add", "lbf_contains"} /\ HasArgs /\ ~last.live)
        => /\ last.reads = {} /\ last.writes = {}
           /\ last.ub = "none" /\ ~crashed
           /\ (last.op = "lbf_contains" => last.ret = "false")

\* C3 -- Standard filter: bloom_add with an absent filter, an absent key or a
\* zero-valued / released filter changes no field and touches no buffer, and
\* bloom_contains then returns false.
C3_BloomInvalid ==
    last.op \in {"bloom_add", "bloom_contains"} /\ ~(HasArgs /\ last.live)
C3_BloomAbsorbsInvalid ==
    /\ [](C3_BloomInvalid
            => /\ last.reads = {} /\ last.writes = {}
               /\ last.ub = "none" /\ ~crashed
               /\ (last.op = "bloom_contains" => last.ret = "false"))
    /\ [][C3_BloomInvalid' => (bf' = bf /\ mem' = mem /\ leaked' = leaked)]_vars

\* bloom_add with an absent key on an initialized filter that holds keys.
C3_Witness ==
    /\ last.op = "bloom_add" /\ last.present /\ last.item = NoItem
    /\ last.live /\ inserted # {}

\* C4 -- init fails exactly when size_bits is 0, num_hashes is 0, (bloom_init)
\* size_bits > SIZE_MAX - 7, or the allocation fails.
C4_InitFailsExactlyWhen ==
    /\ (last.op = "bloom_init" /\ last.present)
          => (last.ret = "false"
                <=> \/ last.size_bits = 0 \/ last.num_hashes = 0
                    \/ last.size_bits > SIZE_MAX - 7
                    \/ last.alloc = "fail")
    /\ (last.op = "lbf_init" /\ last.present)
          => (last.ret = "false"
                <=> \/ last.size_bits = 0 \/ last.num_hashes = 0
                    \/ last.alloc = "fail")
    /\ IsInit => last.ret \in {"true", "false"}

\* bloom_init refused a size whose byte length would overflow.
C4_Witness ==
    /\ last.op = "bloom_init" /\ last.present /\ last.num_hashes # 0
    /\ last.size_bits = SIZE_MAX - 6 /\ last.ret = "false" /\ last.alloc = "none"

\* C5 -- An init call that returns failure leaves every field of the filter
\* structure as it was.
C5_FailedInitNoSideEffect ==
    [][(last'.op \in {"bloom_init", "lbf_init"} /\ last'.ret = "false")
          => (bf' = bf /\ lf' = lf)]_vars

\* C6 -- A successful bloom_init yields the arguments in size_bits, num_hashes,
\* seed1 and seed2, byte_length = ceil(size_bits / 8) and all bits clear, and
\* bloom_contains is false for every key until the first bloom_add.
C6_BloomInitResult ==
    /\ (last.op = "bloom_init" /\ last.ret = "true")
          => /\ bf.size_bits = last.size_bits
             /\ bf.num_hashes = last.num_hashes
             /\ bf.seed1 = last.seed1 /\ bf.seed2 = last.seed2
             /\ bf.byte_length = CeilDiv(last.size_bits, 8)
             /\ bf.bit_array \in DOMAIN mem
             /\ mem[bf.bit_array] = [len |-> bf.byte_length, bits |-> {}]
    /\ (kind = "bloom" /\ bf.bit_array # NULL /\ inserted = {})
          => /\ \A x \in Keys : ~ bloom_contains(TRUE, bf, mem, x)
             /\ (last.op = "bloom_contains" => last.ret = "false")

\* bloom_contains asked of a freshly initialized 9-bit filter.
C6_Witness ==
    /\ last.op = "bloom_contains" /\ HasArgs /\ last.live /\ inserted = {}
    /\ bf.size_bits = 9 /\ bf.byte_length = 2 /\ bf.seed1 = 5 /\ bf.seed2 = 7
    /\ last.ret = "false"

\* C7 -- A successful lbf_init sets word_count to the smallest power of two
\* >= ceil(size_bits / 64), word_mask = word_count - 1, block_bits =
\* log2(word_count), size_bits = word_count * 64, all words zero; 65 and 100
\* bits give 2 words and 128 bits.
C7_LbfInitRounding ==
    (last.op = "lbf_init" /\ last.ret = "true")
        => /\ lf.word_count = Pow2AtLeast(CeilDiv(last.size_bits, 64), 1)
           /\ lf.word_mask = lf.word_count - 1
           /\ 2 ^ lf.block_bits = lf.word_count
           /\ lf.size_bits = lf.word_count * 64
           /\ mem[lf.bit_array] = [len |-> lf.word_count, bits |-> {}]
           /\ (last.size_bits \in {65, 100}
                  => lf.word_count = 2 /\ lf.size_bits = 128)

\* C8 -- release is idempotent: after bloom_free / lbf_free the structure is
\* zero and the buffer it held is freed once; a release of a structure that
\* holds no buffer frees nothing and changes nothing.
C8_ReleaseIdempotent ==
    /\ []((IsFree /\ last.present)
            => /\ bf = ZeroBloom /\ lf = ZeroLbf
               /\ last.ub = "none" /\ ~crashed
               /\ last.freed \notin DOMAIN mem
               /\ (~last.live => last.freed = NULL))
    /\ [][(last'.op \in {"bloom_free", "lbf_free"} /\ last'.present)
            => /\ last'.live => /\ last'.freed \in DOMAIN mem
                                /\ DOMAIN mem' = DOMAIN mem \ {last'.freed}
               /\ ~last'.live => (mem' = mem /\ bf' = bf /\ lf' = lf)
               /\ leaked' = leaked]_vars

\* A release of a structure that holds no buffer and has been initialized
\* before (a buffer of its was leaked by a second init).
C8_Witness ==
    /\ last.op = "bloom_free" /\ last.present /\ ~last.live
    /\ leaked # {} /\ bf = ZeroBloom

\* C9 -- Monotonicity: on a filter that holds a buffer, insert and contains
\* clear no bit of any buffer and change no field of the structure.
C9_Monotonic ==
    [][(last'.op \in {"bloom_add", "bloom_contains", "lbf_add", "lbf_contains"}
          /\ last'.live)
          => /\ bf' = bf /\ lf' = lf
             /\ DOMAIN mem' = DOMAIN mem
             /\ \A a \in DOMAIN mem :
                   /\ mem'[a].len = mem[a].len
                   /\ mem[a].bits \subseteq mem'[a].bits]_vars

\* An insert into a blocked filter that already holds another key.
C9_Witness ==
    /\ last.op = "lbf_add" /\ HasArgs /\ last.live
    /\ Cardinality(inserted) >= 2 /\ lf.word_count = 4
    /\ mem[lf.bit_array].bits # {}

\* C10 -- Blocked-filter locality: lbf_add reads and writes exactly the word
\* at the index given by the top block_bits bits of the key's digest and
\* changes no other word; lbf_contains reads that one word, writes none, and
\* tests the bit positions lbf_add sets for the key, in the same order.
C10_BlockOf(item) == lbf_digest(lf, item) \div (2 ^ (W64 - lf.block_bits))
C10_Locality ==
    /\ []((last.op \in {"lbf_add", "lbf_contains"} /\ HasArgs /\ last.live)
            => LET word == <<lf.bit_array, C10_BlockOf(last.item)>>
                   drawn == lbf_add_probes(lf, lbf_digest(lf, last.item), 0)
               IN  /\ last.reads = {word}
                   /\ C10_BlockOf(last.item) < mem[lf.bit_array].len
                   /\ last.op = "lbf_add"
                         => last.writes = {word} /\ last.probes = drawn
                   /\ last.op = "lbf_contains"
                         => /\ last.writes = {}
                            /\ IsPrefix(last.probes, drawn)
                            /\ last.ret = "true" => last.probes = drawn
                   /\ Len(drawn) = lf.num_hashes)
    /\ [][(last'.op = "lbf_add" /\ last'.present /\ last'.item # NoItem
             /\ last'.live)
            => \A a \in DOMAIN mem : \A x \in 
                   (mem'[a].bits \ mem[a].bits) \cup (mem[a].bits \ mem'[a].bits) :
                   a = lf.bit_array /\ x[1] = C10_BlockOf(last'.item)]_vars

\* lbf_contains found a key of the largest filter in a word other than word 0.
C10_Witness ==
    /\ last.op = "lbf_contains" /\ HasArgs /\ last.live /\ last.ret = "true"
    /\ lf.word_count = (M64 \div 64) \div 2 /\ lf.num_hashes = 3
    /\ \E r \in last.reads : r[2] # 0

\* The bits a standard / blocked filter with the fields of filter holds once
\* the keys of the set keys are inserted, as <<element index, bit position>>.
C11_BloomBits(filter, keys) ==
    UNION { { << p \div 8, p % 8 >> :
                p \in { bloom_bit_index(filter, bloom_h1(filter, x),
                                        bloom_h2(filter, x), i) :
                          i \in 0 .. filter.num_hashes - 1 } } : x \in keys }
C11_LbfBits(filter, keys) ==
    UNION { { << lbf_block_index(filter, x), lbf_bit_pos(state) >> :
                state \in { (lbf_digest(filter, x) + i * gamma) % M64 :
                              i \in 0 .. filter.num_hashes - 1 } } : x \in keys }

\* C11 -- Determinism: the fields a successful init leaves are a function of
\* its arguments, insert and contains leave them alone, and the bit content
\* and every contains result are those of any filter with the same fields at
\* any other address after the same inserts.
C11_Deterministic ==
    /\ []((last.op = "bloom_init" /\ last.ret = "true")
            => bf = [size_bits |-> last.size_bits, num_hashes |-> last.num_hashes,
                     seed1 |-> last.seed1, seed2 |-> last.seed2,
                     bit_array |-> bf.bit_array,
                     byte_length |-> bloom_byte_length(last.size_bits)])
    /\ []((last.op = "lbf_init" /\ last.ret = "true")
            => lf = lbf_init_fields(last.num_hashes, last.seed,
                        next_power_of_two(lbf_requested_words(last.size_bits)),
                        lf.bit_array))
    /\ []((kind = "bloom" /\ bf.bit_array # NULL)
            => \A a \in Addr :
                 LET twin == [bf EXCEPT !.bit_array = a]
                     bits == C11_BloomBits(twin, inserted)
                 IN  /\ mem[bf.bit_array].bits = bits
                     /\ (last.op = "bloom_contains" /\ HasArgs /\ last.live)
                           => last.ret = Bool(C11_BloomBits(twin, {last.item})
                                                \subseteq bits))
    /\ []((kind = "lbf" /\ lf.bit_array # NULL)
            => \A a \in Addr :
                 LET twin == [lf EXCEPT !.bit_array = a]
                     bits == C11_LbfBits(twin, inserted)
                 IN  /\ mem[lf.bit_array].bits = bits
                     /\ (last.op = "lbf_contains" /\ HasArgs /\ last.live)
                           => last.ret = Bool(C11_LbfBits(twin, {last.item})
                                                \subseteq bits))
    /\ [][(last'.op \in {"bloom_add", "bloom_contains", "lbf_add", "lbf_contains"})
            => (bf' = bf /\ lf' = lf)]_vars

\* A query answered false by a filter that holds two keys in its second buffer.
C11_Witness ==
    /\ last.op = "bloom_contains" /\ HasArgs /\ last.live
    /\ Cardinality(inserted) = 2 /\ bf.bit_array = 2 /\ bf.num_hashes = 3
    /\ last.ret = "false"

\* C12 -- Non-zero stride: the stride h2 of bloom_add and bloom_contains is
\* hash64(key, seed2) mod size_bits, or 1 when that remainder is 0; it lies in
\* [1, size_bits - 1] when size_bits >= 2, and it is the step between the bit
\* indices the call probed.
C12_NonZeroStride ==
    (last.op \in {"bloom_add", "bloom_contains"} /\ HasArgs /\ last.live)
        => \A x \in Keys :
             LET remainder == XXH64(x, Len(x), bf.seed2) % bf.size_bits
                 h1 == bloom_h1(bf, x)
                 h2 == bloom_h2(bf, x)
             IN  /\ bf.size_bits >= 2 => (1 <= h2 /\ h2 <= bf.size_bits - 1)
                 /\ remainder = 0 => h2 = 1
                 /\ remainder # 0 => h2 = remainder
                 /\ x = last.item
                       => \A j \in DOMAIN last.probes :
                            /\ j = 1 => last.probes[j] = h1 % bf.size_bits
                            /\ (j > 1 /\ h1 + (j - 1) * h2 < M64)
                                  => last.probes[j]
                                       = (last.probes[j - 1] + h2) % bf.size_bits

\* bloom_add of a key whose remainder is 0 in a 9-bit filter: three distinct
\* bits, one apart.
C12_Witness ==
    /\ last.op = "bloom_add" /\ HasArgs /\ last.live /\ bf.size_bits = 9
    /\ XXH64(last.item, Len(last.item), bf.seed2) % bf.size_bits = 0
    /\ Len(last.probes) = 3
    /\ Cardinality({ last.probes[j] : j \in 1 .. 3 }) = 3

\* C13 -- In an initialized standard filter every set bit has an index in
\* [0, size_bits), so no bit at or after size_bits in the last byte is set,
\* the buffer keeps its byte_length bytes, and every byte bloom_add or
\* bloom_contains read or wrote is at an offset in [0, byte_length) of it.
C13_BitsInRange ==
    (kind = "bloom" /\ bf.bit_array # NULL)
        => /\ bf.bit_array \in DOMAIN mem
           /\ mem[bf.bit_array].len = bf.byte_length
           /\ 8 * bf.byte_length >= bf.size_bits
           /\ \A x \in mem[bf.bit_array].bits :
                 /\ x[2] \in 0 .. 7
                 /\ 0 <= 8 * x[1] + x[2] /\ 8 * x[1] + x[2] < bf.size_bits
           /\ last.op \in {"bloom_add", "bloom_contains"}
                 => /\ \A r \in last.reads \cup last.writes :
                          r[1] = bf.bit_array /\ 0 <= r[2] /\ r[2] < bf.byte_length
                    /\ \A j \in DOMAIN last.probes :
                          0 <= last.probes[j] /\ last.probes[j] < bf.size_bits

\* The top bit of a 9-bit filter (bit 0 of its last byte) is set, the seven
\* bits after it are not.
C13_Witness ==
    /\ kind = "bloom" /\ bf.size_bits = 9 /\ bf.byte_length = 2
    /\ bf.bit_array # NULL /\ last.op = "bloom_add"
    /\ <<1, 0>> \in mem[bf.bit_array].bits
    /\ \E w \in last.writes : w[2] = 1

\* C14 -- The bit indices bloom_add sets and bloom_contains probes are
\* (h1 + i*h2) mod size_bits, i = 0, 1, ..., with h1 + i*h2 the mathematical
\* integer; bloom_add probes all num_hashes of them.
C14_MathematicalPositions ==
    (last.op \in {"bloom_add", "bloom_contains"} /\ HasArgs /\ last.live)
        => LET h1 == bloom_h1(bf, last.item)
               h2 == bloom_h2(bf, last.item)
           IN  /\ \A j \in DOMAIN last.probes :
                     last.probes[j] = (h1 + (j - 1) * h2) % bf.size_bits
               /\ last.op = "bloom_add" => Len(last.probes) = bf.num_hashes

\* C15 -- A successful lbf_init rounds the request up, also for size_bits
\* close to the maximum of size_t: word_count is a power of two >= 1 and
\* >= ceil(size_bits / 64), and the size_bits it exposes, word_count * 64
\* modulo 2^w, is >= the size_bits requested.
C15_LbfRoundsUp ==
    (last.op = "lbf_init" /\ last.ret = "true" /\ last.size_bits >= 1)
        => /\ lf.word_count >= 1
           /\ \E k \in 0 .. W64 : lf.word_count = 2 ^ k
           /\ lf.word_count >= CeilDiv(last.size_bits, 64)
           /\ lf.size_bits = (lf.word_count * 64) % M64
           /\ lf.size_bits >= last.size_bits

\* C16 -- In a blocked filter as lbf_init leaves it (its fields do not change
\* until the release), for every 64-bit digest the block_index is the value
\* of the top block_bits bits of the digest, is 0 when word_count is 1, and
\* is < word_count, the length of the array; in every state after that the
\* word lbf_add / lbf_contains accessed is that of the key's digest, and
\* every bit position drawn for a key is in [0, 64).
C16_BlockIndexInRange ==
    (kind = "lbf" /\ lf.bit_array # NULL)
        => /\ lf.bit_array \in DOMAIN mem
           /\ mem[lf.bit_array].len = lf.word_count
           /\ (last.op = "lbf_init" /\ last.ret = "true")
                 => \A digest \in 0 .. M64 - 1 :
                      LET block_index ==
                              block_index_from_hash(digest, lf.block_bits, lf.word_mask)
                      IN  /\ block_index = digest \div (2 ^ (W64 - lf.block_bits))
                          /\ lf.word_count = 1 => block_index = 0
                          /\ 0 <= block_index /\ block_index < lf.word_count
           /\ \A x \in Keys :
                 LET drawn == lbf_add_probes(lf, lbf_digest(lf, x), 0)
                 IN  /\ Len(drawn) = lf.num_hashes
                     /\ \A j \in DOMAIN drawn : drawn[j] \in 0 .. 63
           /\ (last.op \in {"lbf_add", "lbf_contains"} /\ HasArgs)
                 => /\ \A r \in last.reads \cup last.writes :
                          /\ r[1] = lf.bit_array
                          /\ r[2] = lbf_digest(lf, last.item)
                                       \div (2 ^ (W64 - lf.block_bits))
                          /\ r[2] < lf.word_count
                    /\ \A j \in DOMAIN last.probes : last.probes[j] \in 0 .. 63
                    /\ \A x \in mem[lf.bit_array].bits :
                          x[1] < lf.word_count /\ x[2] \in 0 .. 63

\* lbf_add into the last word of a four-word filter, and a bit in the upper
\* half of that word.
C16_Witness ==
    /\ last.op = "lbf_add" /\ HasArgs /\ last.live
    /\ lf.word_count = 4 /\ lf.block_bits = 2
    /\ \E w \in last.writes : w[2] = 3
    /\ \E j \in DOMAIN last.probes : last.probes[j] >= 32

\* The filter a successful init leaves: the shape fields are those of the
\* arguments of the call and every bit of the buffer is clear.
C17_FreshAfterInit ==
    /\ (last.op = "bloom_init" /\ last.ret = "true")
          => /\ bf = bloom_init_fields(last.size_bits, last.num_hashes, last.seed1,
                                       last.seed2, bf.bit_array,
                                       bloom_byte_length(last.size_bits))
             /\ mem[bf.bit_array] = [len |-> bf.byte_length, bits |-> {}]
             /\ inserted = {}
    /\ (last.op = "lbf_init" /\ last.ret = "true")
          => /\ lf = lbf_init_fields(last.num_hashes, last.seed,
                        next_power_of_two(lbf_requested_words(last.size_bits)),
                        lf.bit_array)
             /\ mem[lf.bit_array] = [len |-> lf.word_count, bits |-> {}]
             /\ inserted = {}

\* C17 (as stated) -- Lifecycle: after init, inserts, release and a further
\* successful init the filter is as a freshly initialized one, and contains
\* returns false for every key inserted before the release until that key is
\* inserted again.
C17_Lifecycle ==
    /\ C17_FreshAfterInit
    /\ (heldAll /\ kind = "bloom" /\ bf.bit_array # NULL)
          => \A x \in Keys \ inserted : ~ bloom_contains(TRUE, bf, mem, x)
    /\ (heldAll /\ kind = "lbf" /\ lf.bit_array # NULL)
          => \A x \in Keys \ inserted : ~ lbf_contains(TRUE, lf, mem, x)

\* C17 (amended) -- Lifecycle: after init, inserts, release and a further
\* successful init the filter is as a freshly initialized one, and contains
\* returns false for every key until the first insert that follows the init.
C17_LifecycleUntilFirstInsert ==
    /\ C17_FreshAfterInit
    /\ (kind = "bloom" /\ bf.bit_array # NULL /\ inserted = {})
          => /\ \A x \in Keys : ~ bloom_contains(TRUE, bf, mem, x)
             /\ (last.op = "bloom_contains" => last.ret = "false")
    /\ (kind = "lbf" /\ lf.bit_array # NULL /\ inserted = {})
          => /\ \A x \in Keys : ~ lbf_contains(TRUE, lf, mem, x)
             /\ (last.op = "lbf_contains" /\ last.live => last.ret = "false")

\* A blocked filter that held every key, was released and initialized again
\* answers false.
C17_Witness ==
    /\ heldAll /\ last.op = "lbf_contains" /\ HasArgs /\ last.live
    /\ inserted = {} /\ last.ret = "false" /\ lf.word_count = 2

\* The buffer after bloom_add / lbf_add of key x to the buffer array of the
\* current filter.
C18_BloomAdd(array, x) ==
    bloom_add_loop(bf, array, bloom_h1(bf, x), bloom_h2(bf, x), 0)
C18_LbfAdd(array, x) ==
    WriteWord(array, lbf_block_index(lf, x),
              lbf_add_loop(lf, ReadWord(array, lbf_block_index(lf, x)),
                           lbf_digest(lf, x), 0))
\* The keys of a set inserted into array one by one, in one fixed order.
RECURSIVE C18_BloomFold(_, _)
C18_BloomFold(array, keys) ==
    IF keys = {} THEN array
    ELSE LET x == CHOOSE k \in keys : \A o \in keys : Len(k) > Len(o) \/ k[1] >= o[1]
         IN  C18_BloomAdd(C18_BloomFold(array, keys \ {x}), x)
RECURSIVE C18_LbfFold(_, _)
C18_LbfFold(array, keys) ==
    IF keys = {} THEN array
    ELSE LET x == CHOOSE k \in keys : \A o \in keys : Len(k) > Len(o) \/ k[1] >= o[1]
         IN  C18_LbfAdd(C18_LbfFold(array, keys \ {x}), x)

\* C18 -- The bit content depends only on the set of keys inserted: after
\* init and after every insert it is the content that inserting that set in
\* one fixed order into the zeroed buffer gives, whatever the order and the
\* repetitions of the calls made; from that content, inserting a key twice
\* equals inserting it once and two keys commute; a re-insert and a contains
\* call change no bit.
C18_SetSemantics ==
    /\ []((kind = "bloom" /\ bf.bit_array # NULL
             /\ last.op \in {"bloom_init", "bloom_add"})
            => LET array == mem[bf.bit_array]
               IN  /\ array = C18_BloomFold(ZeroArray(bf.byte_length), inserted)
                   /\ \A x \in Keys :
                         LET withx == C18_BloomAdd(array, x)
                         IN  /\ C18_BloomAdd(withx, x) = withx
                             /\ \A y \in Keys \ {x} :
                                   C18_BloomAdd(withx, y)
                                      = C18_BloomAdd(C18_BloomAdd(array, y), x))
    /\ []((kind = "lbf" /\ lf.bit_array # NULL
             /\ last.op \in {"lbf_init", "lbf_add"})
            => LET array == mem[lf.bit_array]
               IN  /\ array = C18_LbfFold(ZeroArray(lf.word_count), inserted)
                   /\ \A x \in Keys :
                         LET withx == C18_LbfAdd(array, x)
                         IN  /\ C18_LbfAdd(withx, x) = withx
                             /\ \A y \in Keys \ {x} :
                                   C18_LbfAdd(withx, y)
                                      = C18_LbfAdd(C18_LbfAdd(array, y), x))
    /\ [][/\ (last'.op \in {"bloom_add", "lbf_add"} /\ last'.live
                /\ last'.item \in inserted) => mem' = mem
          /\ last'.op \in {"bloom_contains", "lbf_contains"}
                => (mem' = mem /\ inserted' = inserted)]_vars

\* All three keys are in a 9-bit filter of 3 hashes and share bits: fewer
\* than 9 bits are set.
C18_Witness ==
    /\ last.op = "bloom_add" /\ HasArgs /\ last.live /\ inserted = Keys
    /\ bf.size_bits = 9 /\ bf.num_hashes = 3
    /\ Cardinality(mem[bf.bit_array].bits) < 9
    /\ Cardinality(mem[bf.bit_array].bits) > 3

====
